---- MODULE Spec2Model ----
(***************************************************************************)
(* The panda lexical scanner (compiler/scanner.go) as a state machine.     *)
(* The state is one Scanner over one source buffer plus what its caller    *)
(* can observe: the token and literal of the last Scan call, the lines     *)
(* written to standard output by Scanner.error and the number of times    *)
(* the ErrorHandler was invoked.  Source buffers are sequences of bytes    *)
(* (0..255); offsets are 0-based as in the Go code.                        *)
(***************************************************************************)
EXTENDS Integers, Sequences, FiniteSets, TLC

\* ------------------------------------------------------------------ bounds

\* Longest source buffer drawn from the general alphabet.
MaxLen == 3

\* Scan calls the caller still makes after the first EOF token.
MaxEofCalls == 2

\* ------------------------------------------------------- program constants

bom == 65279

eof == -1

\* unicode/utf8 and unicode constants used by next() and scanEscape().
RuneSelf == 128

RuneError == 65533

MaxRune == 1114111

\* The byte values of the character literals the scanner compares against.
Ch ==
  [ NUL |-> 0, TAB |-> 9, NL |-> 10, CR |-> 13, SP |-> 32, DQ |-> 34,
    HASH |-> 35, SQ |-> 39, STAR |-> 42, DOT |-> 46, SLASH |-> 47,
    d0 |-> 48, d1 |-> 49, d2 |-> 50, d7 |-> 55, d8 |-> 56, d9 |-> 57,
    AT |-> 64, A |-> 65, B |-> 66, F |-> 70, O |-> 79, U |-> 85, X |-> 88,
    Z |-> 90, BSL |-> 92, UND |-> 95, BQ |-> 96,
    a |-> 97, b |-> 98, f |-> 102, i |-> 105, n |-> 110, o |-> 111,
    r |-> 114, t |-> 116, u |-> 117, v |-> 118, w |-> 119, x |-> 120,
    z |-> 122, BANG |-> 33, e |-> 101, d |-> 100,
    d3 |-> 51, d4 |-> 52, D |-> 68, E |-> 69, q |-> 113 ]

\* Go's src[lo:hi] on a byte sequence (0-based, hi exclusive).
Slice(src, lo, hi) == SubSeq(src, lo + 1, hi)

\* A local variable: the value v, once computed, under the name F gives it.
With(v, F(_)) == F(v)

\* ------------------------------------------------------------- rune cursor

\* Scanner.error: prints the message and counts it.  The call of the
\* ErrorHandler is commented out in the source, so handlerCalls is untouched
\* whether or not a handler was supplied.
error(s, offset, msg) ==
  [s EXCEPT !.printed = Append(@, msg), !.ErrorCount = @ + 1]

\* utf8.DecodeRune on src[i:], i 0-based: <<rune, width>>.
DecodeRune(src, i) ==
  LET n  == Len(src) - i
      p0 == src[i + 1]
      sz == IF p0 \in 194..223 THEN 2
            ELSE IF p0 \in 224..239 THEN 3
            ELSE IF p0 \in 240..244 THEN 4
            ELSE 0
      lo == IF p0 = 224 THEN 160 ELSE IF p0 = 240 THEN 144 ELSE 128
      hi == IF p0 = 237 THEN 159 ELSE IF p0 = 244 THEN 143 ELSE 191
      b1 == src[i + 2]
      b2 == src[i + 3]
      b3 == src[i + 4]
  IN  IF p0 < RuneSelf THEN <<p0, 1>>
      ELSE IF sz = 0 \/ n < sz THEN <<RuneError, 1>>
      ELSE IF b1 < lo \/ hi < b1 THEN <<RuneError, 1>>
      ELSE IF sz = 2 THEN <<(p0 % 32) * 64 + (b1 % 64), 2>>
      ELSE IF b2 < 128 \/ 191 < b2 THEN <<RuneError, 1>>
      ELSE IF sz = 3 THEN <<(p0 % 16) * 4096 + (b1 % 64) * 64 + (b2 % 64), 3>>
      ELSE IF b3 < 128 \/ 191 < b3 THEN <<RuneError, 1>>
      ELSE <<(p0 % 8) * 262144 + (b1 % 64) * 4096 + (b2 % 64) * 64 + (b3 % 64), 4>>

\* Scanner.next, the switch: the diagnostic for byte b decoded as <<r, w>>.
nextCheck(s, b, rw) ==
  IF b = 0
  THEN error(s, s.offset, "illegal character NUL")
  ELSE IF b >= RuneSelf /\ rw[1] = RuneError /\ rw[2] = 1
  THEN error(s, s.offset, "illegal UTF-8 encoding")
  ELSE IF b >= RuneSelf /\ rw[1] = bom /\ s.offset > 0
  THEN error(s, s.offset, "illegal byte order mark")
  ELSE s

\* nextAtEnd with readOffset advanced even though nothing is left to read.
nextAtEnd_advancing(s) ==
  [s EXCEPT !.offset = Len(s.src), !.char = eof, !.readOffset = @ + 1]

\* Scanner.next, the else branch: readOffset is at the end of the buffer.
nextAtEnd(s) == [s EXCEPT !.offset = Len(s.src), !.char = eof]

\* next that leaves offset where it was when it decodes a code point.
next_staleOffset(s) ==
  IF s.readOffset < Len(s.src)
  THEN LET b == s.src[s.readOffset + 1]
       IN  With(IF b >= RuneSelf THEN DecodeRune(s.src, s.readOffset) ELSE <<b, 1>>,
                LAMBDA rw :
                  [nextCheck(s, b, rw)
                     EXCEPT !.readOffset = s.readOffset + rw[2], !.char = rw[1]])
  ELSE nextAtEnd(s)

\* Scanner.next: decode the code point at readOffset into char.
next(s) ==
  IF s.readOffset < Len(s.src)
  THEN LET b == s.src[s.readOffset + 1]
       IN  With(IF b >= RuneSelf THEN DecodeRune(s.src, s.readOffset) ELSE <<b, 1>>,
                LAMBDA rw :
                  [nextCheck([s EXCEPT !.offset = s.readOffset], b, rw)
                     EXCEPT !.readOffset = s.readOffset + rw[2], !.char = rw[1]])
  ELSE nextAtEnd(s)

\* Scanner.peek: the byte after the current code point, 0 at end of input.
peek(s) == IF s.readOffset < Len(s.src) THEN s.src[s.readOffset + 1] ELSE 0

\* --------------------------------------------------------- classification

isLetter(char) ==
  \/ char = Ch.UND
  \/ Ch.a <= char /\ char <= Ch.z
  \/ Ch.A <= char /\ char <= Ch.Z

isDecimal(char) == Ch.d0 <= char /\ char <= Ch.d9

\* ('a' - 'A') | char on a 32-bit two's complement rune.
lower(char) ==
  IF char < 0 THEN char
  ELSE IF (char \div 32) % 2 = 0 THEN char + 32 ELSE char

\* digitVal without lower(): upper-case hex digits are no digits.
digitVal_lowerCaseOnly(char) ==
  IF Ch.d0 <= char /\ char <= Ch.d9 THEN char - Ch.d0
  ELSE IF Ch.a <= char /\ char <= Ch.f THEN char - Ch.a + 10
  ELSE 16

digitVal(char) ==
  IF Ch.d0 <= char /\ char <= Ch.d9 THEN char - Ch.d0
  ELSE IF Ch.a <= lower(char) /\ lower(char) <= Ch.f THEN lower(char) - Ch.a + 10
  ELSE 16

\* The keyword table consulted by Lookup.
Keywords == { <<Ch.i, Ch.f>> }

\* Lookup: a keyword's own token kind, IDENT for any other identifier.
Lookup(literal) == IF literal \in Keywords THEN "KEYWORD" ELSE "IDENT"

\* --------------------------------------------------------- literal scanners

RECURSIVE lineCommentLoop_pastNewline(_)
\* lineCommentLoop that also consumes the newline ending the comment.
lineCommentLoop_pastNewline(s) ==
  IF s.char < 0 THEN s
  ELSE IF s.char = Ch.NL THEN next(s)
  ELSE lineCommentLoop_pastNewline(next(s))

RECURSIVE lineCommentLoop(_)
\* scanComment, the loop of the //-style branch.
lineCommentLoop(s) ==
  IF s.char # Ch.NL /\ s.char >= 0 THEN lineCommentLoop(next(s)) ELSE s

RECURSIVE blockCommentLoop(_)
\* scanComment, the loop of the /*-style branch: the cursor and `terminated`.
blockCommentLoop(s) ==
  IF s.char >= 0
  THEN With(next(s), LAMBDA s1 :
         IF s.char = Ch.STAR /\ s1.char = Ch.SLASH
         THEN [s |-> next(s1), terminated |-> TRUE]
         ELSE blockCommentLoop(s1))
  ELSE [s |-> s, terminated |-> FALSE]

\* Scanner.scanComment: the initial '/' is consumed, char is '/' or '*'.
scanComment(s) ==
  LET offset == s.offset - 1
  IN  IF s.char = Ch.SLASH
      THEN With(lineCommentLoop(next(s)), LAMBDA s1 :
             [s |-> s1, lit |-> Slice(s.src, offset, s1.offset)])
      ELSE With(blockCommentLoop(next(s)), LAMBDA res :
             With(IF ~res.terminated
                  THEN error(res.s, offset, "comment not terminated")
                  ELSE res.s,
                  LAMBDA s2 : [s |-> s2, lit |-> Slice(s.src, offset, s2.offset)]))

RECURSIVE identifierLoop_digitsOnly(_)
\* identifierLoop that continues on digits only, so that an identifier made
\* of letters consumes nothing.
identifierLoop_digitsOnly(s) ==
  IF isDecimal(s.char) THEN identifierLoop_digitsOnly(next(s)) ELSE s

RECURSIVE identifierLoop(_)
\* scanIdentifier, its loop.
identifierLoop(s) ==
  IF isLetter(s.char) \/ isDecimal(s.char) THEN identifierLoop(next(s)) ELSE s

\* Scanner.scanIdentifier.
scanIdentifier(s) ==
  With(identifierLoop(s), LAMBDA s1 :
    [s |-> s1, lit |-> Slice(s.src, s.offset, s1.offset)])

RECURSIVE scanDigits(_, _)
\* Scanner.scanDigits.
scanDigits(s, base) ==
  IF digitVal(s.char) < base THEN scanDigits(next(s), base) ELSE s

\* scanNumberBase that also consumes the code point it rejects as a base.
scanNumberBase_consuming(s1, offset) ==
  LET l    == lower(s1.char)
      base == IF l = Ch.x THEN 16
              ELSE IF l = Ch.b THEN 2
              ELSE IF l = Ch.o THEN 8
              ELSE 10
  IN  IF l \notin {Ch.x, Ch.b, Ch.o}
      THEN [s |-> next(error(s1, offset, "invalid integer")), token |-> "ILLEGAL"]
      ELSE With(scanDigits(next(s1), base), LAMBDA s2 :
             With(IF s2.offset - offset <= 2
                  THEN error(s2, offset, "illegal number")
                  ELSE s2,
                  LAMBDA s3 :
                    [s     |-> IF s3.char = Ch.DOT
                               THEN error(s3, offset, "invalid radix point")
                               ELSE s3,
                     token |-> IF s2.offset - offset <= 2 \/ s3.char = Ch.DOT
                               THEN "ILLEGAL"
                               ELSE "INT"]))

\* scanNumber after "0" and a code point that is not '.': s1 is the cursor on
\* that code point, offset the start of the literal.  Cursor and token.
scanNumberBase(s1, offset) ==
  LET l    == lower(s1.char)
      base == IF l = Ch.x THEN 16
              ELSE IF l = Ch.b THEN 2
              ELSE IF l = Ch.o THEN 8
              ELSE 10
  IN  IF l \notin {Ch.x, Ch.b, Ch.o}
      THEN [s |-> error(s1, offset, "invalid integer"), token |-> "ILLEGAL"]
      ELSE With(scanDigits(next(s1), base), LAMBDA s2 :
             With(IF s2.offset - offset <= 2
                  THEN error(s2, offset, "illegal number")
                  ELSE s2,
                  LAMBDA s3 :
                    [s     |-> IF s3.char = Ch.DOT
                               THEN error(s3, offset, "invalid radix point")
                               ELSE s3,
                     token |-> IF s2.offset - offset <= 2 \/ s3.char = Ch.DOT
                               THEN "ILLEGAL"
                               ELSE "INT"]))

\* scanNumber, the integer part (the first if statement): cursor and token.
scanNumberInt(s) ==
  IF s.char # Ch.DOT
  THEN IF s.char = Ch.d0
       THEN With(next(s), LAMBDA s1 :
              IF s1.char # Ch.DOT
              THEN scanNumberBase(s1, s.offset)
              ELSE [s |-> s1, token |-> "INT"])
       ELSE [s |-> scanDigits(s, 10), token |-> "INT"]
  ELSE [s |-> s, token |-> "INT"]

\* scanNumberFraction comparing offsetFraction with s.offset, not s.offset-1,
\* so that a '.' without digits still passes as FLOAT.
scanNumberFraction_offByOne(p, offset) ==
  IF p.s.char = Ch.DOT
  THEN With(scanDigits(next(p.s), 10), LAMBDA s1 :
         IF p.s.offset = s1.offset
         THEN [s     |-> error(s1, offset, "float has no digits after ."),
               token |-> "ILLEGAL"]
         ELSE [s |-> s1, token |-> "FLOAT"])
  ELSE p

\* scanNumber, the fraction part (the second if statement), entered with the
\* cursor and token the integer part left and the offset of the literal.
scanNumberFraction(p, offset) ==
  IF p.s.char = Ch.DOT
  THEN With(scanDigits(next(p.s), 10), LAMBDA s1 :
         IF p.s.offset = s1.offset - 1
         THEN [s     |-> error(s1, offset, "float has no digits after ."),
               token |-> "ILLEGAL"]
         ELSE [s |-> s1, token |-> "FLOAT"])
  ELSE p

\* Scanner.scanNumber.
scanNumber(s) ==
  With(scanNumberFraction(scanNumberInt(s), s.offset), LAMBDA p :
    [s |-> p.s, token |-> p.token, lit |-> Slice(s.src, s.offset, p.s.offset)])

RECURSIVE escapeDigits(_, _, _, _)
\* scanEscape, the digit loop: cursor, whether all n digits were read, value.
\* At most 8 digits of base 16 are read, so the uint32 x never wraps; a value
\* already above MaxRune is kept as it is (it only grows in the code), which
\* keeps every intermediate value below 2^31.
escapeDigits(s, n, base, x) ==
  IF n > 0
  THEN IF digitVal(s.char) >= base
       THEN [s  |-> error(s, s.offset,
                           IF s.char < 0
                           THEN "escape sequence not terminated"
                           ELSE "illegal character in escape sequence"),
             ok |-> FALSE,
             x  |-> x]
       ELSE escapeDigits(next(s), n - 1, base,
                         IF x > MaxRune THEN x ELSE x * base + digitVal(s.char))
  ELSE [s |-> s, ok |-> TRUE, x |-> x]

\* escapeValue without the test for the surrogate range.
escapeValue_noSurrogates(s, offset, n, base, max) ==
  With(escapeDigits(s, n, base, 0), LAMBDA res :
    IF ~res.ok THEN [s |-> res.s, ok |-> FALSE]
    ELSE IF res.x > max
    THEN [s  |-> error(res.s, offset, "escape sequence is invalid Unicode code point"),
          ok |-> FALSE]
    ELSE [s |-> res.s, ok |-> TRUE])

\* scanEscape after the switch: read n digits of the base, then range-check.
escapeValue(s, offset, n, base, max) ==
  With(escapeDigits(s, n, base, 0), LAMBDA res :
    IF ~res.ok THEN [s |-> res.s, ok |-> FALSE]
    ELSE IF res.x > max \/ (55296 <= res.x /\ res.x < 57344)
    THEN [s  |-> error(res.s, offset, "escape sequence is invalid Unicode code point"),
          ok |-> FALSE]
    ELSE [s |-> res.s, ok |-> TRUE])

\* escapeKind with octal escapes of two digits.
escapeKind_shortOctal(char) ==
  IF Ch.d0 <= char /\ char <= Ch.d7 THEN [n |-> 2, base |-> 8, max |-> 255, skip |-> FALSE]
  ELSE IF char = Ch.x THEN [n |-> 2, base |-> 16, max |-> 255, skip |-> TRUE]
  ELSE IF char = Ch.u THEN [n |-> 4, base |-> 16, max |-> MaxRune, skip |-> TRUE]
  ELSE IF char = Ch.U THEN [n |-> 8, base |-> 16, max |-> MaxRune, skip |-> TRUE]
  ELSE [n |-> 0, base |-> 0, max |-> 0, skip |-> FALSE]

\* scanEscape, the switch: how many digits of which base up to which value
\* the escape introduced by char takes; n = 0 for an unknown escape.
escapeKind(char) ==
  IF Ch.d0 <= char /\ char <= Ch.d7 THEN [n |-> 3, base |-> 8, max |-> 255, skip |-> FALSE]
  ELSE IF char = Ch.x THEN [n |-> 2, base |-> 16, max |-> 255, skip |-> TRUE]
  ELSE IF char = Ch.u THEN [n |-> 4, base |-> 16, max |-> MaxRune, skip |-> TRUE]
  ELSE IF char = Ch.U THEN [n |-> 8, base |-> 16, max |-> MaxRune, skip |-> TRUE]
  ELSE [n |-> 0, base |-> 0, max |-> 0, skip |-> FALSE]

\* Scanner.scanEscape: the backslash is consumed; cursor and the bool result.
scanEscape(s, quote) ==
  LET k == escapeKind(s.char)
  IN  IF s.char \in {Ch.a, Ch.b, Ch.f, Ch.n, Ch.r, Ch.t, Ch.v, Ch.BSL, quote}
      THEN [s |-> next(s), ok |-> TRUE]
      ELSE IF k.n > 0
      THEN escapeValue(IF k.skip THEN next(s) ELSE s, s.offset, k.n, k.base, k.max)
      ELSE [s  |-> error(s, s.offset,
                          IF s.char < 0
                          THEN "escape sequence not terminated"
                          ELSE "unknown escape sequence"),
            ok |-> FALSE]

RECURSIVE stringLoop_stopOnFailure(_, _)
\* stringLoop that ends the literal where scanEscape fails.
stringLoop_stopOnFailure(s, offset) ==
  IF s.char = Ch.NL \/ s.char < 0
  THEN error(s, offset, "string literal not terminated")
  ELSE IF s.char = Ch.DQ THEN next(s)
  ELSE IF s.char = Ch.BSL
  THEN With(scanEscape(next(s), Ch.DQ), LAMBDA res :
         IF res.ok THEN stringLoop_stopOnFailure(res.s, offset) ELSE res.s)
  ELSE stringLoop_stopOnFailure(next(s), offset)

RECURSIVE stringLoop(_, _)
\* scanString, its loop.
stringLoop(s, offset) ==
  IF s.char = Ch.NL \/ s.char < 0
  THEN error(s, offset, "string literal not terminated")
  ELSE IF s.char = Ch.DQ THEN next(s)
  ELSE IF s.char = Ch.BSL THEN stringLoop(scanEscape(next(s), Ch.DQ).s, offset)
  ELSE stringLoop(next(s), offset)

\* scanString with the literal taken from the cursor, not from the quote.
scanString_fromCursor(s) ==
  With(stringLoop(s, s.offset), LAMBDA s1 :
    [s |-> s1, lit |-> Slice(s.src, s.offset, s1.offset)])

\* Scanner.scanString: the opening quote is consumed.
scanString(s) ==
  With(stringLoop(s, s.offset - 1), LAMBDA s1 :
    [s |-> s1, lit |-> Slice(s.src, s.offset - 1, s1.offset)])

RECURSIVE charLoop(_, _, _, _)
\* scanChar, its loop: cursor, valid and n.
charLoop(s, offset, valid, n) ==
  IF s.char = Ch.NL \/ s.char < 0
  THEN IF valid
       THEN [s     |-> error(s, offset, "rune literal not terminated"),
             valid |-> FALSE,
             n     |-> n]
       ELSE [s |-> s, valid |-> valid, n |-> n]
  ELSE IF s.char = Ch.SQ THEN [s |-> next(s), valid |-> valid, n |-> n]
  ELSE IF s.char = Ch.BSL
  THEN With(next(s), LAMBDA s1 :
         IF s1.char \in {Ch.a, Ch.b, Ch.f, Ch.n, Ch.r, Ch.t, Ch.v, Ch.BSL, Ch.SQ}
         THEN charLoop(next(s1), offset, valid, n + 1)
         ELSE charLoop(error(s1, offset, "illegal char literal"), offset, FALSE, n + 1))
  ELSE charLoop(next(s), offset, valid, n + 1)

\* scanChar without the test that exactly one character was read.
scanChar_anyCount(s) ==
  With(charLoop(s, s.offset - 1, TRUE, 0), LAMBDA res :
    [s |-> res.s, lit |-> Slice(s.src, s.offset - 1, res.s.offset)])

\* Scanner.scanChar: the opening quote is consumed.
scanChar(s) ==
  With(charLoop(s, s.offset - 1, TRUE, 0), LAMBDA res :
    With(IF res.valid /\ res.n # 1
         THEN error(res.s, s.offset - 1, "illegal char literal")
         ELSE res.s,
         LAMBDA s1 : [s |-> s1, lit |-> Slice(s.src, s.offset - 1, s1.offset)]))

RECURSIVE rawStringLoop(_, _)
\* scanRawString, its loop.
rawStringLoop(s, offset) ==
  IF s.char < 0
  THEN error(s, offset, "raw string literal not terminated")
  ELSE IF s.char = Ch.BQ THEN next(s) ELSE rawStringLoop(next(s), offset)

\* Scanner.scanRawString: the opening back quote is consumed.
scanRawString(s) ==
  With(rawStringLoop(s, s.offset - 1), LAMBDA s1 :
    [s |-> s1, lit |-> Slice(s.src, s.offset - 1, s1.offset)])

\* ------------------------------------------------------------------- Scan

RECURSIVE skipWhitespace(_)
\* Scan, the leading loop over ' ', '\t', '\n', '\r'.
skipWhitespace(s) ==
  IF s.char \in {Ch.SP, Ch.TAB, Ch.NL, Ch.CR} THEN skipWhitespace(next(s)) ELSE s

\* What Scan returns: the scanner after the call, the token and the literal,
\* and `start`, the offset at which the whitespace loop of the returning
\* invocation stopped.
Result(s, token, lit, start) ==
  [s |-> s, token |-> token, lit |-> lit, start |-> start]

\* Scan, the default branch of the switch: the code point `char` is already
\* consumed by the next() before the switch.
scanInvalid(s) == next(error(s, s.offset, "invalid token"))

\* scanMeta that looks the name up as Scan does for an identifier.
scanMeta_withLookup(s, start) ==
  IF isLetter(s.char)
  THEN With(scanIdentifier(s), LAMBDA res :
         Result(res.s, IF res.lit \in Keywords THEN "KEYWORD" ELSE "META",
                res.lit, start))
  ELSE Result(error(s, s.offset, "invalid meta name"), "ILLEGAL", << >>, start)

\* Scan, the '@' branch: the '@' is consumed.
scanMeta(s, start) ==
  IF isLetter(s.char)
  THEN With(scanIdentifier(s), LAMBDA res : Result(res.s, "META", res.lit, start))
  ELSE Result(error(s, s.offset, "invalid meta name"), "ILLEGAL", << >>, start)

RECURSIVE ScanResult(_)

\* scanSlash that returns the comment whatever scanComments says.
scanSlash_alwaysComment(s, start) ==
  IF s.char = Ch.SLASH \/ s.char = Ch.STAR
  THEN With(scanComment(s), LAMBDA res : Result(res.s, "COMMENT", res.lit, start))
  ELSE Result(s, "ILLEGAL", << >>, start)

\* Scan, the '/' branch: the '/' is consumed.  With comments suppressed the
\* comment is dropped and Scan calls itself for the next token.
scanSlash(s, start) ==
  IF s.char = Ch.SLASH \/ s.char = Ch.STAR
  THEN With(scanComment(s), LAMBDA res :
         IF ~res.s.scanComments
         THEN ScanResult(res.s)
         ELSE Result(res.s, "COMMENT", res.lit, start))
  ELSE Result(s, "ILLEGAL", << >>, start)

\* Scan, the switch on the code point `char` that the next() before it
\* consumed; s is the scanner after that next().
scanSwitch(char, s, start) ==
  IF char = eof THEN Result(s, "EOF", << >>, start)
  ELSE IF char = Ch.DQ
  THEN With(scanString(s), LAMBDA res : Result(res.s, "STRING", res.lit, start))
  ELSE IF char = Ch.BQ
  THEN With(scanRawString(s), LAMBDA res : Result(res.s, "STRING", res.lit, start))
  ELSE IF char = Ch.SQ
  THEN With(scanChar(s), LAMBDA res : Result(res.s, "CHAR", res.lit, start))
  ELSE IF char = Ch.DOT THEN Result(s, "ILLEGAL", << >>, start)
  ELSE IF char = Ch.SLASH THEN scanSlash(s, start)
  ELSE IF char = Ch.AT THEN scanMeta(s, start)
  ELSE Result(scanInvalid(s), "ILLEGAL", << >>, start)

\* Scan after its whitespace loop.
scanToken(s) ==
  IF isLetter(s.char)
  THEN With(scanIdentifier(s), LAMBDA res :
         Result(res.s, Lookup(res.lit), res.lit, s.offset))
  ELSE IF isDecimal(s.char) \/ (s.char = Ch.DOT /\ isDecimal(peek(s)))
  THEN With(scanNumber(s), LAMBDA res : Result(res.s, res.token, res.lit, s.offset))
  ELSE scanSwitch(s.char, next(s), s.offset)

\* Scanner.Scan as a function of the scanner.
ScanResult(s0) == With(skipWhitespace(s0), LAMBDA s : scanToken(s))

\* skipBom that leaves a leading byte order mark as the current code point.
skipBom_never(s) == s

\* NewScanner after its first next(): skip a leading byte order mark.
skipBom(s) == IF s.char = bom THEN next(s) ELSE s

\* NewScanner: the scanner after construction over src.
NewScanner(file, source, handler, withComments, flagList) ==
  [ skipBom(next([ src |-> source, err |-> handler, scanComments |-> withComments,
                   char |-> Ch.SP, offset |-> 0, readOffset |-> 0, ErrorCount |-> 0,
                   flags |-> {}, printed |-> << >>, handlerCalls |-> 0 ]))
      EXCEPT !.flags = flagList ]

\* ------------------------------------------------------------------ state

VARIABLES
  src,           \* Scanner.src, the source buffer
  err,           \* Scanner.err: TRUE when a non-nil ErrorHandler was supplied
  scanComments,  \* Scanner.scanComments
  flags,         \* Scanner.flags, the keys of the map
  char,          \* Scanner.char
  offset,        \* Scanner.offset
  readOffset,    \* Scanner.readOffset
  ErrorCount,    \* Scanner.ErrorCount
  printed,       \* the messages Scanner.error wrote to standard output
  handlerCalls,  \* how many times the ErrorHandler was invoked
  token,         \* the token of the last Scan call, "NONE" before the first
  literal,       \* the literal of the last Scan call
  start,         \* the offset where the last Scan call's token starts
  entryOffset,   \* Scanner.offset when the last Scan call was entered
  entryErrors,   \* Scanner.ErrorCount when the last Scan call was entered
  out            \* every (token, literal) returned so far, in order

vars ==
  << src, err, scanComments, flags, char, offset, readOffset, ErrorCount,
     printed, handlerCalls, token, literal, start, entryOffset, entryErrors, out >>

\* The Scanner the variables hold.
Self ==
  [ src |-> src, err |-> err, scanComments |-> scanComments, flags |-> flags,
    char |-> char, offset |-> offset, readOffset |-> readOffset,
    ErrorCount |-> ErrorCount, printed |-> printed, handlerCalls |-> handlerCalls ]

\* All byte strings over alphabet A of length at most n.
SeqsUpTo(A, n) == UNION { [1..k -> A] : k \in 0..n }

\* Bytes of every class Scan dispatches on: NUL, white space, a letter, a
\* digit, each punctuation it knows, '#', a two-byte code point (C3 A9) whose
\* second byte alone is invalid UTF-8.
GeneralAlphabet ==
  { Ch.NUL, Ch.SP, Ch.NL, Ch.a, Ch.d1, Ch.DOT, Ch.SLASH, Ch.AT, Ch.HASH,
    Ch.DQ, Ch.SQ, Ch.BQ, Ch.BSL, 195, 169 }

\* Bytes of number literals: digits of each base, the base letters, the radix
\* point and a NUL to end a literal with.
NumberAlphabet ==
  { Ch.d0, Ch.d1, Ch.d8, Ch.x, Ch.B, Ch.o, Ch.A, Ch.DOT, Ch.NUL }

\* Bytes of comments and what surrounds them.
CommentAlphabet == { Ch.SLASH, Ch.STAR, Ch.a, Ch.NL, Ch.NUL }

\* The flag the directive sources name.
FlagNames == { <<Ch.w>> }

\* "#if w\nx\n#end\n" and "#if !w\nx\n#end\n".
DirectiveSources ==
  { << Ch.HASH, Ch.i, Ch.f, Ch.SP, Ch.w, Ch.NL, Ch.x, Ch.NL,
       Ch.HASH, Ch.e, Ch.n, Ch.d, Ch.NL >>,
    << Ch.HASH, Ch.i, Ch.f, Ch.SP, Ch.BANG, Ch.w, Ch.NL, Ch.x, Ch.NL,
       Ch.HASH, Ch.e, Ch.n, Ch.d, Ch.NL >> }

\* Hexadecimal digits that reach below, inside and above the surrogate range.
HexSample == { Ch.d0, Ch.d8, Ch.D, Ch.E, Ch.F }

\* String literals holding one \u escape of 4 digits or one \U escape of 8
\* digits (values up to, just above and far above the maximum code point).
UnicodeEscapeSources ==
  { <<Ch.DQ, Ch.BSL, Ch.u>> \o h \o <<Ch.DQ>> : h \in [1..4 -> HexSample] }
  \cup { <<Ch.DQ, Ch.BSL, Ch.U, p[1], Ch.d0, p[2], p[3]>> \o h \o <<Ch.DQ>> :
            p \in {Ch.d0, Ch.F} \X {Ch.d0, Ch.d1} \X {Ch.d0, Ch.d1},
            h \in [1..4 -> {Ch.d0, Ch.D, Ch.F}] }

\* String literals holding one backslash followed by up to three characters
\* that are octal digits (values up to and above 255), '8' or a letter.
OctalEscapeSources ==
  { <<Ch.DQ, Ch.BSL>> \o t \o <<Ch.DQ>> :
      t \in SeqsUpTo({Ch.d0, Ch.d3, Ch.d4, Ch.d7, Ch.d8, Ch.a}, 3) }

\* Number literals with a base prefix, a radix point and what follows it.
RadixPointSources ==
  { <<Ch.d0, b>> \o i \o <<Ch.DOT>> \o f :
      b \in {Ch.x, Ch.X, Ch.b, Ch.O},
      i \in SeqsUpTo({Ch.d1}, 1),
      f \in SeqsUpTo({Ch.d1, Ch.SP}, 2) }

\* Bytes of string literals: the quote, the backslash, escape letters (valid,
\* hexadecimal, unknown), a digit and the newline.
StringAlphabet == { Ch.DQ, Ch.BSL, Ch.NL, Ch.n, Ch.x, Ch.q, Ch.d0 }

\* A '"' and what follows it.
StringSources == { <<Ch.DQ>> \o t : t \in SeqsUpTo(StringAlphabet, MaxLen + 1) }

\* Bytes of char literals: the quote, the backslash, an escape letter and a
\* letter that is none, the newline and a two-byte code point (C3 A9).
CharAlphabet == { Ch.SQ, Ch.BSL, Ch.NL, Ch.n, Ch.q, 195, 169 }

\* A '\'' and what follows it.
CharSources == { <<Ch.SQ>> \o t : t \in SeqsUpTo(CharAlphabet, MaxLen + 1) }

\* Bytes of identifiers, keywords and meta annotations and what ends them.
NameAlphabet == { Ch.AT, Ch.i, Ch.f, Ch.d1, Ch.SP, Ch.NUL }

\* The pieces byte order mark sources are made of: the mark itself (EF BB
\* BF), a letter, a space, and the mark's first byte alone.
BomUnits == { <<239, 187, 191>>, <<Ch.a>>, <<Ch.SP>>, <<239>> }

RECURSIVE Concat(_)
\* The concatenation of a sequence of byte strings.
Concat(units) ==
  IF units = << >> THEN << >> ELSE Head(units) \o Concat(Tail(units))

\* Every source made of at most MaxLen pieces of BomUnits.
BomSources == { Concat(u) : u \in SeqsUpTo(BomUnits, MaxLen) }

\* The arguments NewScanner is called with: source, handler, scanComment, flags.
Calls ==
  (SeqsUpTo(GeneralAlphabet, MaxLen) \X {TRUE} \X BOOLEAN \X {{}})
  \cup (SeqsUpTo(NumberAlphabet, MaxLen + 1) \X BOOLEAN \X {TRUE} \X {{}})
  \cup (SeqsUpTo(CommentAlphabet, MaxLen + 2) \X {FALSE} \X BOOLEAN \X {{}})
  \cup (DirectiveSources \X {TRUE} \X {FALSE} \X SUBSET FlagNames)
  \cup ((UnicodeEscapeSources \cup OctalEscapeSources \cup RadixPointSources
           \cup StringSources \cup CharSources \cup BomSources
           \cup SeqsUpTo(NameAlphabet, MaxLen + 1))
         \X {TRUE} \X {TRUE} \X {{}})

\* The variables hold scanner s.
Holds(s) ==
  /\ src = s.src
  /\ err = s.err
  /\ scanComments = s.scanComments
  /\ flags = s.flags
  /\ char = s.char
  /\ offset = s.offset
  /\ readOffset = s.readOffset
  /\ ErrorCount = s.ErrorCount
  /\ printed = s.printed
  /\ handlerCalls = s.handlerCalls

Init ==
  /\ \E c \in Calls : \E s \in { NewScanner("file", c[1], c[2], c[3], c[4]) } : Holds(s)
  /\ token = "NONE"
  /\ literal = << >>
  /\ start = 0
  /\ entryOffset = 0
  /\ entryErrors = 0
  /\ out = << >>

\* How many of the tokens returned so far are EOF.
EofCalls == Len(SelectSeq(out, LAMBDA t : t.token = "EOF"))

\* The caller invokes Scan once more.
Scan ==
  /\ EofCalls <= MaxEofCalls
  /\ Len(out) <= Len(src) + MaxEofCalls
  /\ \E res \in { ScanResult(Self) } :
       /\ char' = res.s.char
       /\ offset' = res.s.offset
       /\ readOffset' = res.s.readOffset
       /\ ErrorCount' = res.s.ErrorCount
       /\ printed' = res.s.printed
       /\ handlerCalls' = res.s.handlerCalls
       /\ token' = res.token
       /\ literal' = res.lit
       /\ start' = res.start
       /\ out' = Append(out, [token |-> res.token, literal |-> res.lit])
  /\ entryOffset' = offset
  /\ entryErrors' = ErrorCount
  /\ UNCHANGED << src, err, scanComments, flags >>

Next == Scan

Spec == Init /\ [][Next]_vars

\* ----------------------------------------------------------------- claims

\* The messages Scanner.error printed during the last Scan call.
CallDiags == SubSeq(printed, entryErrors + 1, Len(printed))

\* How many times the last Scan call printed msg.
CallCount(msg) == Len(SelectSeq(CallDiags, LAMBDA m : m = msg))

\* The diagnostics next() itself raises while decoding a code point.
CursorDiags ==
  { "illegal character NUL", "illegal UTF-8 encoding", "illegal byte order mark" }

\* C1: EOF is absorbing.  Once Scan has returned EOF, every later Scan call
\* returns EOF with the empty literal and leaves offset, readOffset, char and
\* ErrorCount as they were.
C1_EofAbsorbing ==
  [][ token = "EOF" =>
        /\ token' = "EOF"
        /\ literal' = << >>
        /\ offset' = offset
        /\ readOffset' = readOffset
        /\ char' = char
        /\ ErrorCount' = ErrorCount ]_vars

\* C1 witness: a non-empty source that produced diagnostics, with Scan called
\* twice more after its first EOF.
C1_Witness == EofCalls = 3 /\ Len(src) > 0 /\ ErrorCount > 0

\* C2: forward progress.  No Scan call moves offset backwards, a Scan call
\* entered with offset < len(src) returns with a strictly larger offset, and
\* EOF is among the first len(src)+1 tokens returned.
C2_Progress ==
  [][ /\ offset' >= offset
      /\ offset < Len(src) => offset' > offset
      /\ Len(out') >= Len(src) + 1 =>
           \E k \in 1..(Len(src) + 1) : out'[k].token = "EOF" ]_vars

\* C2 witness: a source of at least two bytes whose EOF arrives exactly at
\* call len(src)+1, after a call that recorded a diagnostic and advanced.
C2_Witness ==
  /\ Len(src) >= 2
  /\ Len(out) = Len(src) + 1
  /\ token = "EOF"
  /\ EofCalls = 1
  /\ ErrorCount > 0

\* The token kinds whose literal is the whole span of the token.
SpanTokens == { "IDENT", "KEYWORD", "INT", "FLOAT", "STRING", "CHAR", "COMMENT" }

\* The token at `start` was dispatched to scanNumber.
NumberAtStart ==
  /\ start < Len(src)
  /\ \/ isDecimal(src[start + 1])
     \/ /\ src[start + 1] = Ch.DOT
        /\ start + 1 < Len(src)
        /\ isDecimal(src[start + 2])

\* C3 as stated: the literal of every token, of any kind, is src[start:end].
C3_RoundTripEveryKind ==
  token # "NONE" => literal = Slice(src, start, offset)

\* C3 amended: the literal is src[start:end] for identifier, keyword, INT,
\* FLOAT, STRING, CHAR and COMMENT tokens and for the ILLEGAL tokens of the
\* number scanner; the META literal is src[start+1:end], without the '@'; EOF
\* and every other ILLEGAL token carry the empty literal.
C3_RoundTrip ==
  /\ token \in SpanTokens => literal = Slice(src, start, offset)
  /\ token = "META" => literal = Slice(src, start + 1, offset)
  /\ token = "EOF" => literal = << >> /\ start = offset
  /\ token = "ILLEGAL" =>
       literal = IF NumberAtStart THEN Slice(src, start, offset) ELSE << >>

\* C3 witness: a META token returned after leading white space was skipped.
C3_Witness ==
  /\ token = "META"
  /\ literal # << >>
  /\ start > entryOffset

\* C4: every diagnostic reaches the caller's handler: with a handler
\* supplied, the number of handler invocations equals ErrorCount, and
\* ErrorCount counts exactly the diagnostics printed.
C4_HandlerSeesEveryDiagnostic ==
  /\ ErrorCount = Len(printed)
  /\ err => handlerCalls = ErrorCount

RECURSIVE ScanAll(_, _, _)
\* The caller's loop on scanner s: every (token, literal) up to and including
\* the first EOF, and ErrorCount at that point.  At most `calls` calls.
ScanAll(s, acc, calls) ==
  With(ScanResult(s), LAMBDA res :
    IF res.token = "EOF" \/ calls <= 1
    THEN [tokens |-> Append(acc, [token |-> res.token, literal |-> res.lit]),
          errors |-> res.s.ErrorCount]
    ELSE ScanAll(res.s, Append(acc, [token |-> res.token, literal |-> res.lit]),
                 calls - 1))

\* C5: comment suppression is a pure filter.  A scanner built with
\* scanComment=false never returns COMMENT, and up to its first EOF it returns
\* the tokens a scanner built with scanComment=true over the same source
\* returns, COMMENT tokens removed, ending with the same ErrorCount.
C5_CommentFilter ==
  /\ ~scanComments => \A k \in 1..Len(out) : out[k].token # "COMMENT"
  /\ (~scanComments /\ token = "EOF" /\ EofCalls = 1) =>
       With(ScanAll(NewScanner("file", src, err, TRUE, flags), << >>, Len(src) + 1),
            LAMBDA ref :
              /\ out = SelectSeq(ref.tokens, LAMBDA tk : tk.token # "COMMENT")
              /\ ErrorCount = ref.errors)

\* C5 witness: a suppressed scanner at its first EOF over a source that opens
\* with an unterminated block comment after a closed one: the comments'
\* diagnostic is counted, no token but EOF is returned.
C5_Witness ==
  /\ ~scanComments
  /\ token = "EOF"
  /\ EofCalls = 1
  /\ Len(out) = 1
  /\ Len(src) >= 5
  /\ src[1] = Ch.SLASH
  /\ src[2] = Ch.STAR
  /\ ErrorCount > 0

\* The offset of the first newline at or after offset `from`, len(src) if none.
LineEnd(from) ==
  CHOOSE j \in from..Len(src) :
    /\ j = Len(src) \/ src[j + 1] = Ch.NL
    /\ \A k \in from..(j - 1) : src[k + 1] # Ch.NL

\* The last Scan call, comments enabled, found "//" at the start of its token.
LineCommentAtStart ==
  /\ token # "NONE"
  /\ scanComments
  /\ start + 2 <= Len(src)
  /\ src[start + 1] = Ch.SLASH
  /\ src[start + 2] = Ch.SLASH

\* C6 as stated: a line comment is one COMMENT token from the first '/' up to
\* but not including the newline (or the end of input), the call records no
\* diagnostic, and the cursor is left on that newline.
C6_LineCommentNoDiagnostic ==
  LineCommentAtStart =>
    /\ token = "COMMENT"
    /\ literal = Slice(src, start, LineEnd(start))
    /\ offset = LineEnd(start)
    /\ ErrorCount = entryErrors

\* C6 amended: as stated, except that the call may record the cursor's own
\* diagnostics (NUL, invalid UTF-8, misplaced byte order mark) for code points
\* inside the comment, and records none when the comment is NUL-free ASCII.
C6_LineComment ==
  LineCommentAtStart =>
    /\ token = "COMMENT"
    /\ literal = Slice(src, start, LineEnd(start))
    /\ offset = LineEnd(start)
    /\ offset < Len(src) => char = Ch.NL
    /\ \A k \in DOMAIN CallDiags : CallDiags[k] \in CursorDiags
    /\ (\A k \in DOMAIN literal : literal[k] \in 1..127) => ErrorCount = entryErrors

\* C6 witness: a line comment with text, ended by a newline that is followed
\* by more input.
C6_Witness ==
  /\ LineCommentAtStart
  /\ token = "COMMENT"
  /\ Len(literal) >= 3
  /\ offset + 1 < Len(src)

\* The membership test of the directive in a source of DirectiveSources:
\* "#if w" tests w in flags, "#if !w" tests w not in flags.
DirectiveTest ==
  IF src[5] = Ch.BANG THEN <<Ch.w>> \notin flags ELSE <<Ch.w>> \in flags

\* The identifier x between the directive and #end was returned by Scan.
GuardedTokenEmitted == \E k \in 1..Len(out) : out[k].literal = <<Ch.x>>

\* C7: conditional compilation.  When the directive's test is false Scan
\* emits none of the tokens between the directive and its end marker; when it
\* is true they are emitted.
C7_FlagsGateTokens ==
  src \in DirectiveSources =>
    /\ ~DirectiveTest => ~GuardedTokenEmitted
    /\ (DirectiveTest /\ token = "EOF") => GuardedTokenEmitted

\* The bytes that start a token Scan knows, white space included.
TokenStartBytes ==
  { Ch.SP, Ch.TAB, Ch.NL, Ch.CR, Ch.DQ, Ch.BQ, Ch.SQ, Ch.DOT, Ch.SLASH, Ch.AT, Ch.UND }
    \cup (Ch.a..Ch.z) \cup (Ch.A..Ch.Z) \cup (Ch.d0..Ch.d9)

\* The width in bytes of the code point at offset i of src.
WidthAt(i) == IF src[i + 1] < 128 THEN 1 ELSE DecodeRune(src, i)[2]

\* The last Scan call found a code point that starts no token.
UnrecognizedAtStart ==
  /\ token # "NONE"
  /\ start < Len(src)
  /\ src[start + 1] \notin TokenStartBytes

\* C8: recovery from an unrecognized code point.  Scan records exactly one
\* "invalid token" diagnostic, returns ILLEGAL and consumes exactly that one
\* code point.
C8_InvalidTokenConsumesOne ==
  UnrecognizedAtStart =>
    /\ token = "ILLEGAL"
    /\ CallCount("invalid token") = 1
    /\ offset = start + WidthAt(start)

\* The diagnostics of the number scanner.
NumberDiags ==
  { "invalid integer", "illegal number", "invalid radix point",
    "float has no digits after ." }

\* Byte b is a digit of the base: 0-9, a-f or A-F with a value below it.
IsDigitOf(b, base) ==
  \/ b \in 48..57 /\ b - 48 < base
  \/ b \in 97..102 /\ b - 87 < base
  \/ b \in 65..70 /\ b - 55 < base

\* The offset at which the maximal run of digits of the base that begins at
\* offset `from` ends.
RunEnd(from, base) ==
  CHOOSE j \in from..Len(src) :
    /\ j = Len(src) \/ ~IsDigitOf(src[j + 1], base)
    /\ \A k \in from..(j - 1) : IsDigitOf(src[k + 1], base)

\* The last Scan call found "0" and a base letter at the start of its token.
PrefixedAtStart ==
  /\ token # "NONE"
  /\ start + 2 <= Len(src)
  /\ src[start + 1] = Ch.d0
  /\ src[start + 2] \in {Ch.x, Ch.X, Ch.b, Ch.B, Ch.o, Ch.O}

\* The base the prefix at `start` selects.
PrefixBase ==
  IF src[start + 2] \in {Ch.x, Ch.X} THEN 16
  ELSE IF src[start + 2] \in {Ch.b, Ch.B} THEN 2
  ELSE 8

\* Where the digits after the prefix at `start` end.
PrefixedEnd == RunEnd(start + 2, PrefixBase)

\* The byte at offset i, if any, is plain ASCII: next() decodes it silently.
QuietAt(i) == i >= Len(src) \/ src[i + 1] \in 1..127

\* C9 as stated: a base-prefixed number not followed by '.' is INT with zero
\* diagnostics and the literal prefix + digits when a digit follows the
\* prefix, and ILLEGAL with exactly one "illegal number" diagnostic when none
\* does.
C9_PrefixedIntegerNoDiagnostic ==
  (PrefixedAtStart /\ (PrefixedEnd = Len(src) \/ src[PrefixedEnd + 1] # Ch.DOT)) =>
    IF PrefixedEnd > start + 2
    THEN /\ token = "INT"
         /\ literal = Slice(src, start, PrefixedEnd)
         /\ ErrorCount = entryErrors
    ELSE /\ token = "ILLEGAL"
         /\ CallCount("illegal number") = 1

\* C9 amended: as stated, with "zero diagnostics" narrowed to: none of the
\* number scanner's diagnostics; the call (comments enabled) records at most
\* the cursor's diagnostic for the code point that ends the literal, and none
\* when that code point is plain ASCII or the end of input.  The ILLEGAL
\* token's literal is the bare prefix and "illegal number" is its only number
\* diagnostic.
C9_PrefixedInteger ==
  (PrefixedAtStart /\ (PrefixedEnd = Len(src) \/ src[PrefixedEnd + 1] # Ch.DOT)) =>
    /\ offset = PrefixedEnd
    /\ literal = Slice(src, start, PrefixedEnd)
    /\ \A m \in NumberDiags \ {"illegal number"} : CallCount(m) = 0
    /\ scanComments => \A k \in DOMAIN CallDiags :
                         CallDiags[k] \in CursorDiags \cup {"illegal number"}
    /\ (scanComments /\ QuietAt(PrefixedEnd)) =>
         ErrorCount = entryErrors + CallCount("illegal number")
    /\ IF PrefixedEnd > start + 2
       THEN token = "INT" /\ CallCount("illegal number") = 0
       ELSE token = "ILLEGAL" /\ CallCount("illegal number") = 1

\* C9 witness: a hexadecimal literal with an upper-case digit, ended by a NUL.
C9_Witness ==
  /\ PrefixedAtStart
  /\ token = "INT"
  /\ Len(literal) = 3
  /\ literal[3] = Ch.A
  /\ offset < Len(src)
  /\ src[offset + 1] = Ch.NUL

\* Where the decimal digits at `start` end.
IntEnd == RunEnd(start, 10)

\* Where the decimal digits after the '.' at IntEnd end.
FractionEnd == RunEnd(IntEnd + 1, 10)

\* The last Scan call found decimal digits (maybe none) and '.' at the start
\* of its token.
DotAfterDigitsAtStart ==
  /\ token # "NONE"
  /\ IntEnd < Len(src)
  /\ src[IntEnd + 1] = Ch.DOT

\* C10 as stated: digits (possibly none), '.', and at least one digit are a
\* FLOAT whose literal is the whole text, with no diagnostic; with no digit
\* after the '.' of a number (one that has digits before it), the token is
\* ILLEGAL with exactly one "float has no digits after ." diagnostic.
C10_DecimalFloatAnyRun ==
  DotAfterDigitsAtStart =>
    IF FractionEnd > IntEnd + 1
    THEN /\ token = "FLOAT"
         /\ literal = Slice(src, start, FractionEnd)
         /\ ErrorCount = entryErrors
    ELSE IntEnd > start =>
           /\ token = "ILLEGAL"
           /\ CallCount("float has no digits after .") = 1

\* The digits before the '.' are none, a single 0, or start with 1-9.
IntPartPlain ==
  IntEnd = start \/ IntEnd = start + 1 \/ src[start + 1] # Ch.d0

\* C10 amended: the claim holds for an integer part that is empty, "0", or
\* starts with a non-zero digit (a longer run starting with 0 ends after the
\* 0 as an ILLEGAL "invalid integer" token).  "No diagnostic" is: none of the
\* number scanner's, and, comments enabled, at most the cursor's diagnostic
\* for the code point that ends the literal.
C10_DecimalFloat ==
  (DotAfterDigitsAtStart /\ IntPartPlain) =>
    IF FractionEnd > IntEnd + 1
    THEN /\ token = "FLOAT"
         /\ literal = Slice(src, start, FractionEnd)
         /\ offset = FractionEnd
         /\ \A m \in NumberDiags : CallCount(m) = 0
         /\ scanComments => \A k \in DOMAIN CallDiags : CallDiags[k] \in CursorDiags
         /\ (scanComments /\ QuietAt(FractionEnd)) => ErrorCount = entryErrors
    ELSE IntEnd > start =>
           /\ token = "ILLEGAL"
           /\ literal = Slice(src, start, IntEnd + 1)
           /\ CallCount("float has no digits after .") = 1

\* C10 witness: a FLOAT with digits on both sides of the '.', followed by
\* more input.
C10_Witness ==
  /\ DotAfterDigitsAtStart
  /\ IntPartPlain
  /\ token = "FLOAT"
  /\ IntEnd > start
  /\ Len(literal) >= 3
  /\ offset < Len(src)

\* The value of the hexadecimal digit b.
HexVal(b) == IF b \in 48..57 THEN b - 48 ELSE IF b \in 97..102 THEN b - 87 ELSE b - 55

RECURSIVE HexRun(_, _)
\* The value of the k hexadecimal digits that end at offset `to`.
HexRun(to, k) == IF k = 0 THEN 0 ELSE HexRun(to - 1, k - 1) * 16 + HexVal(src[to])

\* The digit count of the \u or \U escape that follows the '"' at `start`.
UnicodeDigits == IF src[start + 3] = Ch.u THEN 4 ELSE 8

\* The offset just past the digits of that escape.
UnicodeEnd == start + 3 + UnicodeDigits

\* The last Scan call found a string literal that opens with a \u escape of
\* 4 hexadecimal digits or a \U escape of 8.
UnicodeEscapeAtStart ==
  /\ token # "NONE"
  /\ start + 3 <= Len(src)
  /\ src[start + 1] = Ch.DQ
  /\ src[start + 2] = Ch.BSL
  /\ src[start + 3] \in {Ch.u, Ch.U}
  /\ UnicodeEnd <= Len(src)
  /\ \A k \in (start + 4)..UnicodeEnd : IsDigitOf(src[k], 16)

\* The value of that escape exceeds 0x10FFFF: one of the two leading digits
\* of a \U escape is not 0, or the last six digits are above it.
UnicodeTooBig ==
  /\ src[start + 3] = Ch.U
  /\ \/ src[start + 4] # Ch.d0
     \/ src[start + 5] # Ch.d0
     \/ HexRun(UnicodeEnd, 6) > 1114111

\* The value of that escape is a surrogate, in [0xD800, 0xE000).
UnicodeSurrogate ==
  /\ ~UnicodeTooBig
  /\ HexRun(UnicodeEnd, IF src[start + 3] = Ch.u THEN 4 ELSE 6) \in 55296..57343

\* C11: surrogate and out-of-range rejection.  In a string literal a \u
\* escape with 4 hexadecimal digits or a \U escape with 8 whose value is a
\* surrogate or exceeds 0x10FFFF records exactly one "escape sequence is
\* invalid Unicode code point" diagnostic, every other value records none;
\* when the literal closes right after the escape the call records nothing
\* else.
C11_UnicodeEscapeRange ==
  UnicodeEscapeAtStart =>
    LET bad == IF UnicodeTooBig \/ UnicodeSurrogate THEN 1 ELSE 0
    IN  /\ token = "STRING"
        /\ CallCount("escape sequence is invalid Unicode code point") = bad
        /\ (UnicodeEnd < Len(src) /\ src[UnicodeEnd + 1] = Ch.DQ) =>
             /\ ErrorCount = entryErrors + bad
             /\ offset = UnicodeEnd + 1

\* C11 witness: a closed string whose \U escape has the digits "0011" before
\* its last four, a value just above the maximum code point.
C11_Witness ==
  /\ UnicodeEscapeAtStart
  /\ src[start + 3] = Ch.U
  /\ src[start + 4] = Ch.d0
  /\ src[start + 6] = Ch.d1
  /\ src[start + 7] = Ch.d1
  /\ token = "STRING"
  /\ ErrorCount = 1

\* The cursor of scanner s is consistent with its source.
CursorOK(s) ==
  /\ 0 <= s.offset
  /\ s.offset <= s.readOffset
  /\ s.readOffset <= Len(s.src)
  /\ (s.char = eof) <=> (s.offset = Len(s.src))
  /\ s.offset < Len(s.src) =>
       With(IF s.src[s.offset + 1] < 128
            THEN <<s.src[s.offset + 1], 1>>
            ELSE DecodeRune(s.src, s.offset),
            LAMBDA rw : s.char = rw[1] /\ s.readOffset = s.offset + rw[2])

RECURSIVE CursorChainOK(_, _)
\* The cursor is consistent in s and after each of the next k calls of next().
CursorChainOK(s, k) ==
  CursorOK(s) /\ (k = 0 \/ CursorChainOK(next(s), k - 1))

\* The scanner NewScanner builds over src before its first next().
Unread ==
  [Self EXCEPT !.char = Ch.SP, !.offset = 0, !.readOffset = 0,
               !.ErrorCount = 0, !.printed = << >>]

\* C12: cursor invariant.  After NewScanner, after every Scan call and after
\* every next() (the calls that walk src from its start to its end, and one
\* more at the end), 0 <= offset <= readOffset <= len(src), char is eof
\* exactly when offset = len(src), and otherwise char is the code point
\* decoded at offset and readOffset is the offset just past it.
C12_CursorInvariant ==
  /\ CursorOK(Self)
  /\ CursorChainOK(next(Unread), Len(src) + 1)

\* C12 witness: a Scan call has returned with the cursor on a two-byte code
\* point that is followed by more input.
C12_Witness ==
  /\ token # "NONE"
  /\ offset > 0
  /\ char = 233
  /\ readOffset = offset + 2
  /\ readOffset < Len(src)

\* The last Scan call found a base-prefixed number whose digits (maybe none)
\* are immediately followed by '.'.
RadixPointAtStart ==
  /\ PrefixedAtStart
  /\ PrefixedEnd < Len(src)
  /\ src[PrefixedEnd + 1] = Ch.DOT

\* C13: no fractional literals in non-decimal bases.  When a 0x/0b/0o-prefixed
\* number is immediately followed by '.', Scan records an "invalid radix
\* point" diagnostic and the token it returns for that text is ILLEGAL, never
\* FLOAT.
C13_RadixPointIsIllegal ==
  RadixPointAtStart =>
    /\ CallCount("invalid radix point") >= 1
    /\ token = "ILLEGAL"

\* The diagnostics of scanEscape.
EscapeDiags ==
  { "unknown escape sequence", "escape sequence not terminated",
    "illegal character in escape sequence",
    "escape sequence is invalid Unicode code point" }

\* The diagnostics of scanEscape the last Scan call printed, in order.
EscapeCallDiags == SelectSeq(CallDiags, LAMBDA m : m \in EscapeDiags)

\* The first diagnostic of scanEscape the last Scan call printed.
FirstEscapeDiag ==
  IF EscapeCallDiags = << >> THEN "none" ELSE EscapeCallDiags[1]

\* The last Scan call found a string literal that opens with a backslash and
\* an octal digit.
OctalEscapeAtStart ==
  /\ token # "NONE"
  /\ start + 3 <= Len(src)
  /\ src[start + 1] = Ch.DQ
  /\ src[start + 2] = Ch.BSL
  /\ src[start + 3] \in 48..55

\* The offset just past the octal digits of that escape: the first
\* non-octal character, or the offset after the third digit.
OctalEnd ==
  IF RunEnd(start + 2, 8) > start + 5 THEN start + 5 ELSE RunEnd(start + 2, 8)

RECURSIVE OctalRun(_, _)
\* The value of the octal digits from offset `from` up to offset `to`.
OctalRun(from, to) ==
  IF to <= from THEN 0 ELSE OctalRun(from, to - 1) * 8 + (src[to] - 48)

\* The value of that escape.
OctalValue == OctalRun(start + 2, OctalEnd)

\* The literal closes right after the escape.
ClosedAt(end) == end < Len(src) /\ src[end + 1] = Ch.DQ

\* C14 as stated: a backslash and one, two or three octal digits with a
\* value of at most 255 are a valid escape and record no diagnostic; only a
\* value above 255 is rejected.
C14_OctalUpToThreeDigits ==
  (OctalEscapeAtStart /\ ClosedAt(OctalEnd)) =>
    IF OctalValue <= 255
    THEN ErrorCount = entryErrors
    ELSE CallCount("escape sequence is invalid Unicode code point") = 1

\* C14 amended: an octal escape is a backslash and exactly three octal
\* digits.  With a value of at most 255 it records no diagnostic, with a
\* value above 255 it records "escape sequence is invalid Unicode code
\* point"; after one or two octal digits the next character is reported as
\* "illegal character in escape sequence" ("escape sequence not terminated"
\* at the end of input) and is left to the string.  A literal that closes
\* right after the escape records nothing else.
C14_OctalThreeDigits ==
  OctalEscapeAtStart =>
    /\ token = "STRING"
    /\ (OctalEnd = start + 5 /\ OctalValue <= 255) =>
         /\ ClosedAt(OctalEnd) => ErrorCount = entryErrors /\ offset = OctalEnd + 1
         /\ FirstEscapeDiag # "none" => offset > OctalEnd
    /\ (OctalEnd = start + 5 /\ OctalValue > 255) =>
         /\ FirstEscapeDiag = "escape sequence is invalid Unicode code point"
         /\ ClosedAt(OctalEnd) => ErrorCount = entryErrors + 1 /\ offset = OctalEnd + 1
    /\ OctalEnd < start + 5 =>
         /\ FirstEscapeDiag = IF OctalEnd = Len(src)
                              THEN "escape sequence not terminated"
                              ELSE "illegal character in escape sequence"
         /\ ClosedAt(OctalEnd) => ErrorCount = entryErrors + 1 /\ offset = OctalEnd + 1

\* C14 witness: a closed string whose escape has two octal digits.
C14_Witness ==
  /\ OctalEscapeAtStart
  /\ OctalEnd = start + 4
  /\ ClosedAt(OctalEnd)
  /\ token = "STRING"
  /\ ErrorCount = 1

\* The last Scan call found a '0' that is followed by the end of input or by
\* a byte that is neither a base letter nor '.'.
LoneZeroAtStart ==
  /\ token # "NONE"
  /\ start < Len(src)
  /\ src[start + 1] = Ch.d0
  /\ \/ start + 1 = Len(src)
     \/ src[start + 2] \notin {Ch.x, Ch.X, Ch.b, Ch.B, Ch.o, Ch.O, Ch.DOT}

\* C15: lone or mis-prefixed zero.  When a number starts with '0' and the
\* next code point is none of x, X, b, B, o, O or '.', Scan returns ILLEGAL
\* with the literal "0", records exactly one "invalid integer" diagnostic
\* (and no other diagnostic of the number scanner), and leaves the cursor on
\* the code point after the '0'.
C15_LoneZero ==
  LoneZeroAtStart =>
    /\ token = "ILLEGAL"
    /\ literal = <<Ch.d0>>
    /\ CallCount("invalid integer") = 1
    /\ \A m \in NumberDiags \ {"invalid integer"} : CallCount(m) = 0
    /\ offset = start + 1
    /\ offset < Len(src) => readOffset = offset + WidthAt(offset)

\* C15 witness: a '0' followed by a decimal digit, after an earlier token.
C15_Witness ==
  /\ LoneZeroAtStart
  /\ start > 0
  /\ start + 1 < Len(src)
  /\ src[start + 2] = Ch.d1
  /\ token = "ILLEGAL"

\* The letters that make a char literal's escape with a backslash.
CharEscapes == { Ch.a, Ch.b, Ch.f, Ch.n, Ch.r, Ch.t, Ch.v, Ch.BSL, Ch.SQ }

RECURSIVE CharContent(_, _, _)
\* The content of a char literal read from offset p on, n logical characters
\* and `other` (an escape outside CharEscapes) seen so far: whether a quote
\* closes it before a newline or the end of input, and where.
CharContent(p, n, other) ==
  IF p >= Len(src) \/ src[p + 1] = Ch.NL
  THEN [closed |-> FALSE, end |-> p, n |-> n, other |-> other]
  ELSE IF src[p + 1] = Ch.SQ
  THEN [closed |-> TRUE, end |-> p, n |-> n, other |-> other]
  ELSE IF src[p + 1] = Ch.BSL
  THEN IF p + 1 < Len(src) /\ src[p + 2] \in CharEscapes
       THEN CharContent(p + 2, n + 1, other)
       ELSE CharContent(p + 1, n + 1, TRUE)
  ELSE CharContent(p + WidthAt(p), n + 1, other)

\* The last Scan call found a '\'' at the start of its token.
CharAtStart ==
  /\ token # "NONE"
  /\ start < Len(src)
  /\ src[start + 1] = Ch.SQ

\* C16: char literal cardinality.  For a char literal closed by ' before any
\* newline or end of input, Scan returns CHAR with the literal up to that
\* quote; it records no "illegal char literal" diagnostic when the content
\* is exactly one logical character (one code point other than backslash,
\* or one escape of a b f n r t v \ '), and at least one when the content
\* is empty, has more than one logical character or holds another escape.
C16_CharCardinality ==
  CharAtStart =>
    With(CharContent(start + 1, 0, FALSE), LAMBDA c :
      c.closed =>
        /\ token = "CHAR"
        /\ offset = c.end + 1
        /\ literal = Slice(src, start, c.end + 1)
        /\ CallCount("rune literal not terminated") = 0
        /\ IF c.n = 1 /\ ~c.other
           THEN CallCount("illegal char literal") = 0
           ELSE CallCount("illegal char literal") >= 1)

\* C16 witness: a closed char literal of two logical characters, an escaped
\* quote and a letter.
C16_Witness ==
  /\ CharAtStart
  /\ token = "CHAR"
  /\ Len(literal) = 5
  /\ literal[2] = Ch.BSL
  /\ literal[3] = Ch.SQ
  /\ literal[4] = Ch.q
  /\ literal[5] = Ch.SQ
  /\ CallCount("illegal char literal") = 1

\* The letters that make a string literal's escape with a backslash, without
\* digits after them.
StringEscapes == { Ch.a, Ch.b, Ch.f, Ch.n, Ch.r, Ch.t, Ch.v, Ch.BSL, Ch.DQ }

RECURSIVE StringEnd(_)
\* A string literal read from offset p on: whether a '"' that is not escaped
\* closes it before a newline or the end of input, and the offset at which
\* it ends (past the closing quote, or on the newline or the end of input).
StringEnd(p) ==
  IF p >= Len(src) \/ src[p + 1] = Ch.NL THEN [closed |-> FALSE, end |-> p]
  ELSE IF src[p + 1] = Ch.DQ THEN [closed |-> TRUE, end |-> p + 1]
  ELSE IF src[p + 1] = Ch.BSL /\ p + 1 < Len(src) /\ src[p + 2] \in StringEscapes
  THEN StringEnd(p + 2)
  ELSE StringEnd(p + 1)

\* The last Scan call found a '"' at the start of its token and one of its
\* escapes failed.
EscapeFailureInString ==
  /\ token # "NONE"
  /\ start < Len(src)
  /\ src[start + 1] = Ch.DQ
  /\ EscapeCallDiags # << >>

\* C17: an escape failure never ends a string token.  After scanEscape has
\* reported an unknown, malformed or out-of-range escape, the token returned
\* is one STRING whose literal runs from the opening quote to the next
\* closing '"', or to the newline or end of input, where exactly one
\* "string literal not terminated" diagnostic is added and the newline is
\* left unconsumed.
C17_EscapeFailureKeepsString ==
  EscapeFailureInString =>
    With(StringEnd(start + 1), LAMBDA e :
      /\ token = "STRING"
      /\ offset = e.end
      /\ literal = Slice(src, start, e.end)
      /\ CallCount("string literal not terminated") = IF e.closed THEN 0 ELSE 1
      /\ (~e.closed /\ offset < Len(src)) => char = Ch.NL
      /\ \A k \in DOMAIN CallDiags :
           CallDiags[k] \in EscapeDiags \cup CursorDiags
                             \cup {"string literal not terminated"})

\* C17 witness: a string whose hexadecimal escape has no digit, ended by a
\* newline that is followed by more input.
C17_Witness ==
  /\ EscapeFailureInString
  /\ token = "STRING"
  /\ CallCount("illegal character in escape sequence") = 1
  /\ CallCount("string literal not terminated") = 1
  /\ char = Ch.NL
  /\ readOffset < Len(src)

\* Byte b is a letter or '_'.
IsLetterByte(b) == b = 95 \/ b \in 97..122 \/ b \in 65..90

\* The offset at which the maximal run of letters, '_' and decimal digits
\* that begins at offset `from` ends.
NameEnd(from) ==
  CHOOSE j \in from..Len(src) :
    /\ j = Len(src) \/ ~(IsLetterByte(src[j + 1]) \/ src[j + 1] \in 48..57)
    /\ \A k \in from..(j - 1) : IsLetterByte(src[k + 1]) \/ src[k + 1] \in 48..57

\* The last Scan call found '@' at the start of its token.
MetaAtStart ==
  /\ token # "NONE"
  /\ start < Len(src)
  /\ src[start + 1] = Ch.AT

\* A letter follows that '@'.
MetaNamed == start + 1 < Len(src) /\ IsLetterByte(src[start + 2])

\* C18 as stated: '@' followed by a letter yields META with the maximal
\* identifier after the '@' as literal and no diagnostic; '@' followed by
\* anything else yields ILLEGAL, exactly one "invalid meta name" diagnostic,
\* and the cursor on the code point right after the '@'.
C18_MetaNoDiagnostic ==
  MetaAtStart =>
    IF MetaNamed
    THEN /\ token = "META"
         /\ literal = Slice(src, start + 1, NameEnd(start + 1))
         /\ ErrorCount = entryErrors
    ELSE /\ token = "ILLEGAL"
         /\ CallCount("invalid meta name") = 1
         /\ offset = start + 1

\* C18 amended: as stated, with "no diagnostic" narrowed to: no "invalid
\* meta name"; the call (comments enabled) records at most the cursor's
\* diagnostic for the code point that ends the identifier, and none when
\* that code point is plain ASCII or the end of input.
C18_Meta ==
  MetaAtStart =>
    IF MetaNamed
    THEN /\ token = "META"
         /\ literal = Slice(src, start + 1, NameEnd(start + 1))
         /\ offset = NameEnd(start + 1)
         /\ CallCount("invalid meta name") = 0
         /\ scanComments => \A k \in DOMAIN CallDiags : CallDiags[k] \in CursorDiags
         /\ (scanComments /\ QuietAt(NameEnd(start + 1))) => ErrorCount = entryErrors
    ELSE /\ token = "ILLEGAL"
         /\ literal = << >>
         /\ CallCount("invalid meta name") = 1
         /\ offset = start + 1
         /\ offset < Len(src) => readOffset = offset + WidthAt(offset)

\* C18 witness: "@if", a keyword as meta name, ended by a NUL.
C18_Witness ==
  /\ MetaAtStart
  /\ token = "META"
  /\ literal = <<Ch.i, Ch.f>>
  /\ offset < Len(src)
  /\ src[offset + 1] = Ch.NUL

\* The bytes EF BB BF, the encoding of U+FEFF, begin at offset i of src.
BomAt(i) ==
  /\ i + 3 <= Len(src)
  /\ src[i + 1] = 239
  /\ src[i + 2] = 187
  /\ src[i + 3] = 191

\* The offsets above 0 of the byte order marks next() has decoded so far.
BomsRead == { i \in 1..(readOffset - 1) : BomAt(i) }

\* How many times Scanner.error printed msg since construction.
PrintedCount(msg) == Len(SelectSeq(printed, LAMBDA m : m = msg))

\* C19: byte order mark.  A mark at offset 0 is consumed by NewScanner
\* without a diagnostic (none at all when the code point after it is plain
\* ASCII or the end of input) and is never part of a token (the first token
\* starts after it); a mark decoded at an offset above 0 records exactly one
\* "illegal byte order mark" diagnostic each time next() reads one.
C19_ByteOrderMark ==
  /\ PrintedCount("illegal byte order mark") = Cardinality(BomsRead)
  /\ BomAt(0) =>
       /\ offset >= 3
       /\ token = "NONE" => offset = 3 /\ (QuietAt(3) => ErrorCount = 0)
       /\ token # "NONE" => start >= 3

\* C19 witness: after a leading mark and more input, a second mark was
\* reported once and returned as an ILLEGAL token.
C19_Witness ==
  /\ BomAt(0)
  /\ BomAt(start)
  /\ start > 3
  /\ token = "ILLEGAL"
  /\ PrintedCount("illegal byte order mark") = 1

\* C20: ILLEGAL is always reported.  Whenever a Scan call returns ILLEGAL, at
\* least one diagnostic was recorded during that call: ErrorCount is strictly
\* larger at return than at entry.
C20_IllegalIsReported ==
  token = "ILLEGAL" => ErrorCount > entryErrors
====
